---------------------------- MODULE Spec2Model ----------------------------
(***************************************************************************)
(* Model of the retrieval-augmented chat backend (backend/API.py and       *)
(* backend/app.py): the chunking utility, the upload / chat / list /       *)
(* delete / health handlers, the vector index (ChromaDB collection) and    *)
(* the upload directory.                                                   *)
(*                                                                         *)
(* Strings are represented by what the handlers observe of them:           *)
(*   - a text is [len, strip]: len(text) and len(text.strip());            *)
(*   - a chunk text[start:end] is the index range [start, stop] with       *)
(*     stop = min(end, len(text)), which is Python's slice;                *)
(*   - a filename is a sequence of tokens ("a", ".", "pdf", "/", ...).     *)
(* The uuid4 of store_in_chromadb is a fresh identifier (a counter).       *)
(***************************************************************************)
EXTENDS Integers, Sequences, FiniteSets, TLC

VARIABLES
    model,          \* API.model is not None (app.py: GEMINI_API_KEY set)
    hasCollection,  \* API.collection is not None (app.py: ChromaDB initialised)
    rows,           \* the records held by the collection
    files,          \* the upload directory: filename -> content of the file
    nextId,         \* the next fresh uuid
    resp,           \* the last request handled one at a time, and its response
    pc,             \* concurrent uploads: each request thread's position
    loc,            \* concurrent uploads: each request thread's locals
    wresp,          \* concurrent uploads: each request thread's last response
    hist,           \* concurrent uploads: doc_id -> value of nextId at its duplicate check
    ct_text,        \* chunking on its own: the argument of chunk_text
    ct_chunks,      \* chunking on its own: the value returned
    ct_pc           \* chunking on its own: "call" before, "done" after

vars == <<model, hasCollection, rows, files, nextId, resp,
          pc, loc, wresp, hist, ct_text, ct_chunks, ct_pc>>

serverVars == <<model, hasCollection, rows, files, nextId, resp>>
concVars   == <<pc, loc, wresp, hist>>
chunkVars  == <<ct_text, ct_chunks, ct_pc>>

---------------------------------------------------------------------------
(* Program constants *)

CHUNK_SIZE == 1000
OVERLAP == 200
OCR_THRESHOLD == 50
N_RESULTS == 5

(* Bounds of the model *)

MaxLen == 2500
MaxDocs == 3

---------------------------------------------------------------------------
(* Helpers *)

Min(a, b) == IF a < b THEN a ELSE b

Range(s) == {s[i] : i \in 1..Len(s)}

Text(n, m) == [len |-> n, strip |-> m]

\* text[start:end] for 0 <= start <= end
Slice(text, start, end) ==
    [start |-> Min(start, text.len), stop |-> Min(end, text.len)]

ChunkLen(c) == c.stop - c.start

---------------------------------------------------------------------------
(* chunk_text *)

RECURSIVE chunk_loop_stride(_, _, _, _, _)
\* the loop with the window cut at the stride: end = start + chunk_size - overlap
chunk_loop_stride(text, chunk_size, overlap, start, chunks) ==
    IF start < text.len
    THEN chunk_loop_stride(text, chunk_size, overlap, start + chunk_size - overlap,
             Append(chunks, Slice(text, start, start + chunk_size - overlap)))
    ELSE chunks

RECURSIVE chunk_loop(_, _, _, _, _)
\* the while loop of chunk_text
chunk_loop(text, chunk_size, overlap, start, chunks) ==
    IF start < text.len
    THEN chunk_loop(text, chunk_size, overlap, start + chunk_size - overlap,
                    Append(chunks, Slice(text, start, start + chunk_size)))
    ELSE chunks

\* chunk_text advancing by chunk_size: the overlap forgotten
chunk_text_no_overlap(text, chunk_size, overlap) ==
    chunk_loop(text, chunk_size, 0, 0, <<>>)

chunk_text(text, chunk_size, overlap) ==
    chunk_loop(text, chunk_size, overlap, 0, <<>>)

---------------------------------------------------------------------------
(* Filenames: sequences of tokens *)

F_a     == <<"a", ".", "pdf">>
F_up_a  == <<".", ".", "/", "a", ".", "pdf">>
F_B     == <<"b", ".", "PDF">>
F_txt   == <<"a", ".", "txt">>
F_noext == <<"a">>
F_trail == <<"a", ".", "pdf", ".">>
F_empty == <<>>

RawNames == {F_a, F_up_a, F_B, F_txt, F_noext, F_trail, F_empty}

Lower(tok) == IF tok = "PDF" THEN "pdf" ELSE tok

ALLOWED_EXTENSIONS == {<<"pdf">>}

\* filename.rsplit('.', 1)[1].lower()
Extension(filename) ==
    LET i == CHOOSE k \in 1..Len(filename) :
                 /\ filename[k] = "."
                 /\ \A j \in (k+1)..Len(filename) : filename[j] # "."
        ext == SubSeq(filename, i + 1, Len(filename))
    IN  [k \in 1..Len(ext) |-> Lower(ext[k])]

allowed_file(filename) ==
    /\ "." \in Range(filename)
    /\ Extension(filename) \in ALLOWED_EXTENSIONS

RECURSIVE StripDots(_)
StripDots(f) ==
    IF f = <<>> THEN f
    ELSE IF Head(f) \in {".", "_"} THEN StripDots(Tail(f))
    ELSE IF f[Len(f)] \in {".", "_"} THEN StripDots(SubSeq(f, 1, Len(f) - 1))
    ELSE f

\* werkzeug's secure_filename: path separators become "_", then leading and
\* trailing "." and "_" are stripped
secure_filename(filename) ==
    StripDots([k \in 1..Len(filename) |->
                  IF filename[k] = "/" THEN "_" ELSE filename[k]])

---------------------------------------------------------------------------
(* Uploaded PDFs (one page): what the text layer and the OCR give *)

Pdf(readable, layer, ocrOk, ocr) ==
    [readable |-> readable, layer |-> layer, ocrOk |-> ocrOk, ocr |-> ocr]

PdfCorrupt == Pdf(FALSE, Text(0, 0), FALSE, Text(0, 0))
PdfEmpty   == Pdf(TRUE, Text(0, 0), FALSE, Text(0, 0))
PdfBlank   == Pdf(TRUE, Text(3, 0), TRUE, Text(0, 0))
PdfScan    == Pdf(TRUE, Text(3, 0), TRUE, Text(60, 58))
PdfLong    == Pdf(TRUE, Text(900, 900), FALSE, Text(0, 0))

Contents == {PdfCorrupt, PdfEmpty, PdfBlank, PdfScan, PdfLong}

NoDir == [f \in {} |-> PdfEmpty]

\* file.save(filepath)
SaveFile(dir, f, content) ==
    [x \in DOMAIN dir \cup {f} |-> IF x = f THEN content ELSE dir[x]]

\* os.remove(filepath)
RemoveFile(dir, f) == [x \in DOMAIN dir \ {f} |-> dir[x]]

\* text += page_text + "\n" for a page whose text is not empty
PageLoop(t) == IF t.len > 0 THEN Text(t.len + 1, t.strip) ELSE Text(0, 0)

\* ocr_text += page_text + "\n" for every page
OcrLoop(t) == Text(t.len + 1, t.strip)

extract_text_from_pdf(dir, filepath) ==
    IF filepath \notin DOMAIN dir \/ ~dir[filepath].readable
    THEN [raised |-> TRUE, text |-> Text(0, 0)]
    ELSE LET pdf  == dir[filepath]
             text == PageLoop(pdf.layer)
         IN  IF text.strip < OCR_THRESHOLD /\ pdf.ocrOk
                /\ OcrLoop(pdf.ocr).strip > text.strip
             THEN [raised |-> FALSE, text |-> OcrLoop(pdf.ocr)]
             ELSE [raised |-> FALSE, text |-> text]

---------------------------------------------------------------------------
(* The collection *)

DocIds == 1..(MaxDocs + 1)

IndexedFilenames(rs) == {r.filename : r \in rs}
IndexedDocIds(rs) == {r.doc_id : r \in rs}

\* the loop of store_in_chromadb building ids, documents and metadatas
NewRows(chunks, doc_id, filename) ==
    {[id |-> <<doc_id, i - 1>>, document |-> chunks[i], filename |-> filename,
      doc_id |-> doc_id, chunk_index |-> i - 1] : i \in 1..Len(chunks)}

\* store_in_chromadb(text, filename); addOk: collection.add returns normally
store_in_chromadb(rs, text, filename, addOk) ==
    IF ~hasCollection
    THEN [raised |-> TRUE, rows |-> rs, doc_id |-> 0, num_chunks |-> 0, uuids |-> 0]
    ELSE LET chunks == chunk_text(text, CHUNK_SIZE, OVERLAP)
         IN  IF addOk
             THEN [raised |-> FALSE, rows |-> rs \cup NewRows(chunks, nextId, filename),
                   doc_id |-> nextId, num_chunks |-> Len(chunks), uuids |-> 1]
             ELSE [raised |-> TRUE, rows |-> rs, doc_id |-> 0, num_chunks |-> 0,
                   uuids |-> 1]

\* the scan left out
IsDuplicate_off(rs, filename) == FALSE

\* the duplicate-filename scan of upload_document
IsDuplicate(rs, filename) ==
    hasCollection /\ \E r \in rs : r.filename = filename

---------------------------------------------------------------------------
(* POST /api/upload, handled as one step *)

\* the removal of the saved file left out
CleanupEmpty_missing(saved, filename) == saved

\* os.remove(filepath) of the "no extractable text" case
CleanupEmpty(saved, filename) == RemoveFile(saved, filename)

NoUpload == [present |-> FALSE, filename |-> <<>>, content |-> PdfEmpty]

UploadRequests ==
    {NoUpload} \cup [present : {TRUE}, filename : RawNames, content : Contents]

UploadError(status, error, dir, ids) ==
    [status |-> status, error |-> error, rows |-> rows, files |-> dir,
     nextId |-> ids, filename |-> <<>>, doc_id |-> 0, chunks |-> 0,
     text_length |-> 0]

\* the body of upload_document: the response and the state it leaves
UploadResult(req, addOk) ==
    IF ~req.present
    THEN UploadError(400, "No file provided", files, nextId)
    ELSE IF req.filename = <<>>
    THEN UploadError(400, "No file selected", files, nextId)
    ELSE IF ~allowed_file(req.filename)
    THEN UploadError(400, "Only PDF files are allowed", files, nextId)
    ELSE LET filename == secure_filename(req.filename) IN
    IF IsDuplicate(rows, filename)
    THEN UploadError(400, "File already uploaded", files, nextId)
    ELSE LET saved == SaveFile(files, filename, req.content)
             ex    == extract_text_from_pdf(saved, filename) IN
    IF ex.raised
    THEN UploadError(500, "exception", saved, nextId)
    ELSE IF ex.text.strip = 0
    THEN UploadError(400, "No text could be extracted from PDF",
                     CleanupEmpty(saved, filename), nextId)
    ELSE LET st == store_in_chromadb(rows, ex.text, filename, addOk) IN
    IF st.raised
    THEN UploadError(500, "exception", saved, nextId + st.uuids)
    ELSE [status |-> 200, error |-> "", rows |-> st.rows, files |-> saved,
          nextId |-> nextId + st.uuids, filename |-> filename,
          doc_id |-> st.doc_id, chunks |-> st.num_chunks,
          text_length |-> ex.text.len]

upload_document(req, addOk) ==
    \E r \in {UploadResult(req, addOk)} :
    /\ r.nextId <= MaxDocs + 1
    /\ rows' = r.rows
    /\ files' = r.files
    /\ nextId' = r.nextId
    /\ resp' = [op |-> "upload", req |-> req, status |-> r.status,
                body |-> [error |-> r.error, filename |-> r.filename,
                          doc_id |-> r.doc_id, chunks |-> r.chunks,
                          text_length |-> r.text_length]]
    /\ UNCHANGED <<model, hasCollection, concVars, chunkVars>>

---------------------------------------------------------------------------
(* POST /api/chat *)

NoDocumentsAnswer ==
    "I don't have any documents to reference. Please upload a PDF document first."

RECURSIVE Rankings(_, _)
Rankings(S, k) ==
    IF k = 0 \/ S = {} THEN {<<>>}
    ELSE UNION {{<<x>> \o p : p \in Rankings(S \ {x}, k - 1)} : x \in S}

\* query_chromadb: what collection.query may return, the n_results nearest
\* records in some order of similarity
query_chromadb(rs, n_results) == Rankings(rs, n_results)

RECURSIVE JoinLen(_)
\* len("\n\n".join(documents))
JoinLen(results) ==
    IF results = <<>> THEN 0
    ELSE IF Len(results) = 1 THEN ChunkLen(results[1].document)
    ELSE ChunkLen(results[1].document) + 2 + JoinLen(Tail(results))

\* generate_response letting the exception of generate_content through
generate_response_raising(gen) ==
    IF ~model
    THEN [raised |-> FALSE, called |-> FALSE, answer |-> "Error: Gemini API is not configured"]
    ELSE IF gen = "raise"
    THEN [raised |-> TRUE, called |-> TRUE, answer |-> ""]
    ELSE [raised |-> FALSE, called |-> TRUE, answer |-> "generated"]

\* generate_response; gen: what model.generate_content does ("text" or "raise")
generate_response(gen) ==
    IF ~model
    THEN [raised |-> FALSE, called |-> FALSE, answer |-> "Error: Gemini API is not configured"]
    ELSE IF gen = "raise"
    THEN [raised |-> FALSE, called |-> TRUE, answer |-> "Error generating response"]
    ELSE [raised |-> FALSE, called |-> TRUE, answer |-> "generated"]

RECURSIVE SourcesLoop(_, _)
\* the seen_files loop of chat
SourcesLoop(results, sources) ==
    IF results = <<>> THEN sources
    ELSE IF results[1].filename \in Range(sources)
    THEN SourcesLoop(Tail(results), sources)
    ELSE SourcesLoop(Tail(results), Append(sources, results[1].filename))

ChatBody(error, answer, sources, called) ==
    [error |-> error, answer |-> answer, sources |-> sources, called |-> called]

\* chat without the early return on an empty context
ChatResult_no_guard(hasQuestion, results, gen) ==
    IF ~hasQuestion
    THEN [status |-> 400, body |-> ChatBody("No question provided", "", <<>>, FALSE)]
    ELSE IF ~hasCollection
    THEN [status |-> 500, body |-> ChatBody("exception", "", <<>>, FALSE)]
    ELSE LET g == generate_response(gen) IN
    IF g.raised
    THEN [status |-> 500, body |-> ChatBody("exception", "", <<>>, g.called)]
    ELSE [status |-> 200,
          body |-> ChatBody("", g.answer, SourcesLoop(results, <<>>), g.called)]

\* the body of chat: the response
ChatResult(hasQuestion, results, gen) ==
    IF ~hasQuestion
    THEN [status |-> 400, body |-> ChatBody("No question provided", "", <<>>, FALSE)]
    ELSE IF ~hasCollection
    THEN [status |-> 500, body |-> ChatBody("exception", "", <<>>, FALSE)]
    ELSE IF JoinLen(results) = 0
    THEN [status |-> 200, body |-> ChatBody("", NoDocumentsAnswer, <<>>, FALSE)]
    ELSE LET g == generate_response(gen) IN
    IF g.raised
    THEN [status |-> 500, body |-> ChatBody("exception", "", <<>>, g.called)]
    ELSE [status |-> 200,
          body |-> ChatBody("", g.answer, SourcesLoop(results, <<>>), g.called)]

\* what the collaborators of one chat request may do: the query is made only
\* for a request with a question, generate_content is called only with a
\* context and a model
QueryOutcomes(hasQuestion) ==
    IF hasQuestion /\ hasCollection THEN query_chromadb(rows, N_RESULTS) ELSE {<<>>}

GenerateOutcomes(results) ==
    IF results # <<>> /\ model THEN {"text", "raise"} ELSE {"none"}

chat(hasQuestion, results, gen) ==
    \E r \in {ChatResult(hasQuestion, results, gen)} :
    /\ resp' = [op |-> "chat",
                req |-> [hasQuestion |-> hasQuestion, results |-> results, gen |-> gen],
                status |-> r.status, body |-> r.body]
    /\ UNCHANGED <<model, hasCollection, rows, files, nextId, concVars, chunkVars>>

---------------------------------------------------------------------------
(* GET /api/documents, DELETE /api/documents/<doc_id>, GET /api/health *)

\* the unique_docs dictionary of list_documents
Documents(rs) ==
    IF ~hasCollection THEN {}
    ELSE {[id |-> r.doc_id, filename |-> r.filename] : r \in rs}

list_documents ==
    /\ resp' = [op |-> "list", req |-> <<>>, status |-> 200,
                body |-> [documents |-> Documents(rows)]]
    /\ UNCHANGED <<model, hasCollection, rows, files, nextId, concVars, chunkVars>>

DeleteBody(error, filename, chunks_deleted) ==
    [error |-> error, filename |-> filename, chunks_deleted |-> chunks_deleted]

DeleteError(status, error) ==
    [status |-> status, body |-> DeleteBody(error, <<>>, 0),
     rows |-> rows, files |-> files]

\* the lookup taking the filename of the first record, whatever its doc_id
FindFilename_any(doc_id) ==
    IF rows = {} THEN <<>> ELSE (CHOOSE r \in rows : TRUE).filename

\* the first loop of delete_document: the filename of doc_id, <<>> for None
FindFilename(doc_id) ==
    IF \E r \in rows : r.doc_id = doc_id
    THEN (CHOOSE r \in rows : r.doc_id = doc_id).filename
    ELSE <<>>

\* the second loop stopping at the first match, as the first loop does
IdsToDelete_break(doc_id) ==
    IF \E r \in rows : r.doc_id = doc_id
    THEN {(CHOOSE r \in rows : r.doc_id = doc_id).id}
    ELSE {}

\* the second loop of delete_document: ids_to_delete
IdsToDelete(doc_id) == {r.id : r \in {x \in rows : x.doc_id = doc_id}}

\* the body of delete_document: the response and the state it leaves
DeleteResult(doc_id) ==
    IF ~hasCollection
    THEN DeleteError(500, "ChromaDB not initialized")
    ELSE IF FindFilename(doc_id) = <<>>
    THEN DeleteError(404, "Document not found")
    ELSE [status |-> 200,
          body |-> DeleteBody("", FindFilename(doc_id), Cardinality(IdsToDelete(doc_id))),
          rows |-> {r \in rows : r.id \notin IdsToDelete(doc_id)},
          files |-> RemoveFile(files, FindFilename(doc_id))]

delete_document(doc_id) ==
    \E r \in {DeleteResult(doc_id)} :
    /\ rows' = r.rows
    /\ files' = r.files
    /\ resp' = [op |-> "delete", req |-> [doc_id |-> doc_id],
                status |-> r.status, body |-> r.body]
    /\ UNCHANGED <<model, hasCollection, nextId, concVars, chunkVars>>

health_check ==
    /\ resp' = [op |-> "health", req |-> <<>>, status |-> 200,
                body |-> [gemini_configured |-> model,
                          chromadb_configured |-> hasCollection]]
    /\ UNCHANGED <<model, hasCollection, rows, files, nextId, concVars, chunkVars>>

---------------------------------------------------------------------------
(* Requests handled one at a time *)

NoResp == [op |-> "none", req |-> <<>>, status |-> 0, body |-> <<>>]

Idle == [filename |-> <<>>, content |-> PdfEmpty, text |-> Text(0, 0), checkedAt |-> 0]

Workers == {1, 2}

NoWResp == [status |-> 0, doc_id |-> 0, filename |-> <<>>]

init_api ==
    /\ model \in BOOLEAN
    /\ hasCollection \in BOOLEAN
    /\ rows = {}
    /\ files = NoDir
    /\ nextId = 1
    /\ resp = NoResp

ConcIdle ==
    /\ pc = [w \in Workers |-> "idle"]
    /\ loc = [w \in Workers |-> Idle]
    /\ wresp = [w \in Workers |-> NoWResp]
    /\ hist = [d \in {} |-> 0]

ChunkIdle ==
    /\ ct_text = Text(0, 0)
    /\ ct_chunks = <<>>
    /\ ct_pc = "idle"

Init == init_api /\ ConcIdle /\ ChunkIdle

Next ==
    \/ \E req \in UploadRequests, addOk \in BOOLEAN : upload_document(req, addOk)
    \/ \E hasQuestion \in BOOLEAN :
          \E results \in QueryOutcomes(hasQuestion) :
              \E gen \in GenerateOutcomes(results) :
                  chat(hasQuestion, results, gen)
    \/ list_documents
    \/ \E doc_id \in DocIds : delete_document(doc_id)
    \/ health_check

Spec == Init /\ [][Next]_vars

---------------------------------------------------------------------------
(* Concurrent uploads: the request threads of the server, each running      *)
(* upload_document with the duplicate check, the file save, the extraction  *)
(* and the index write as separate steps                                    *)

ConcNames == {F_a, F_up_a}
ConcContents == {PdfScan, PdfBlank}

Respond(w, status, doc_id, filename) ==
    /\ wresp' = [wresp EXCEPT ![w] =
                    [status |-> status, doc_id |-> doc_id, filename |-> filename]]
    /\ pc' = [pc EXCEPT ![w] = "idle"]
    /\ loc' = [loc EXCEPT ![w] = Idle]

\* the validation and the duplicate check
c_check(w, req) ==
    /\ pc[w] = "idle"
    /\ IF \/ req.filename = <<>>
          \/ ~allowed_file(req.filename)
          \/ IsDuplicate(rows, secure_filename(req.filename))
       THEN Respond(w, 400, 0, secure_filename(req.filename))
       ELSE /\ pc' = [pc EXCEPT ![w] = "save"]
            /\ loc' = [loc EXCEPT ![w] =
                          [filename |-> secure_filename(req.filename),
                           content |-> req.content, text |-> Text(0, 0),
                           checkedAt |-> nextId]]
            /\ UNCHANGED wresp
    /\ UNCHANGED <<serverVars, hist, chunkVars>>

\* file.save(filepath)
c_save(w) ==
    /\ pc[w] = "save"
    /\ files' = SaveFile(files, loc[w].filename, loc[w].content)
    /\ pc' = [pc EXCEPT ![w] = "extract"]
    /\ UNCHANGED <<model, hasCollection, rows, nextId, resp, loc, wresp, hist, chunkVars>>

\* extract_text_from_pdf(filepath) and the test of its text
c_extract(w) ==
    /\ pc[w] = "extract"
    /\ \E ex \in {extract_text_from_pdf(files, loc[w].filename)} :
          IF ex.raised
          THEN Respond(w, 500, 0, loc[w].filename)
          ELSE /\ pc' = [pc EXCEPT ![w] = IF ex.text.strip = 0 THEN "remove" ELSE "store"]
               /\ loc' = [loc EXCEPT ![w].text = ex.text]
               /\ UNCHANGED wresp
    /\ UNCHANGED <<serverVars, hist, chunkVars>>

\* os.remove(filepath), which raises when the file is gone
c_remove(w) ==
    /\ pc[w] = "remove"
    /\ IF loc[w].filename \in DOMAIN files
       THEN /\ files' = CleanupEmpty(files, loc[w].filename)
            /\ Respond(w, 400, 0, loc[w].filename)
       ELSE /\ files' = files
            /\ Respond(w, 500, 0, loc[w].filename)
    /\ UNCHANGED <<model, hasCollection, rows, nextId, resp, hist, chunkVars>>

\* store_in_chromadb(text, filename) and the response
c_store(w, addOk) ==
    /\ pc[w] = "store"
    /\ \E st \in {store_in_chromadb(rows, loc[w].text, loc[w].filename, addOk)} :
          /\ nextId + st.uuids <= MaxDocs + 1
          /\ rows' = st.rows
          /\ nextId' = nextId + st.uuids
          /\ IF st.raised
             THEN /\ Respond(w, 500, 0, loc[w].filename)
                  /\ hist' = hist
             ELSE /\ Respond(w, 200, st.doc_id, loc[w].filename)
                  /\ hist' = [d \in DOMAIN hist \cup {st.doc_id} |->
                                 IF d = st.doc_id THEN loc[w].checkedAt ELSE hist[d]]
    /\ UNCHANGED <<model, hasCollection, files, resp, chunkVars>>

ConcNext ==
    \E w \in Workers :
        \/ \E filename \in ConcNames, content \in ConcContents :
              c_check(w, [present |-> TRUE, filename |-> filename, content |-> content])
        \/ c_save(w)
        \/ c_extract(w)
        \/ c_remove(w)
        \/ \E addOk \in BOOLEAN : c_store(w, addOk)

ConcSpec == Init /\ [][ConcNext]_vars

---------------------------------------------------------------------------
(* chunk_text on its own, on every text of length 0..MaxLen *)

ChunkInit ==
    /\ init_api
    /\ ConcIdle
    /\ ct_text \in {Text(n, n) : n \in 0..MaxLen}
    /\ ct_chunks = <<>>
    /\ ct_pc = "call"

ChunkCall ==
    /\ ct_pc = "call"
    /\ ct_chunks' = chunk_text(ct_text, CHUNK_SIZE, OVERLAP)
    /\ ct_pc' = "done"
    /\ UNCHANGED <<serverVars, concVars, ct_text>>

ChunkNext == ChunkCall

ChunkSpec == ChunkInit /\ [][ChunkNext]_vars

---------------------------------------------------------------------------
(* Properties *)

Max(a, b) == IF a > b THEN a ELSE b

CeilDiv(a, b) == (a + b - 1) \div b

Stride == CHUNK_SIZE - OVERLAP

UploadOf(r) == r.op = "upload" /\ r.req.present

\* the extraction of this PDF succeeds with an empty or whitespace-only text
BlankExtraction(content) ==
    LET ex == extract_text_from_pdf(SaveFile(NoDir, F_a, content), F_a)
    IN  ~ex.raised /\ ex.text.strip = 0

\* the request passes the validation and the duplicate check, so its file is saved
ReachesSave(req) ==
    /\ req.filename # <<>>
    /\ allowed_file(req.filename)
    /\ \A r \in rows : r.filename # secure_filename(req.filename)

\* C1: while filename f has chunks in the index (an upload of f succeeded and
\* its document is not deleted), an upload request whose sanitized filename is
\* f returns 400 and leaves the index and the upload directory as they were.
C1_DuplicateRejected ==
    [][(UploadOf(resp') /\ secure_filename(resp'.req.filename) \in IndexedFilenames(rows))
          => (resp'.status = 400 /\ rows' = rows /\ files' = files)]_vars

\* C1 witness: a duplicate upload was rejected, its raw filename differing from
\* the indexed one and its content from the stored file.
C1_Witness ==
    /\ UploadOf(resp)
    /\ resp.status = 400
    /\ resp.body.error = "File already uploaded"
    /\ resp.req.filename # secure_filename(resp.req.filename)
    /\ secure_filename(resp.req.filename) \in IndexedFilenames(rows)
    /\ files[secure_filename(resp.req.filename)] # resp.req.content

\* C2: a DELETE of d answered 200 leaves no record of d in the index, d is not
\* listed by GET /api/documents, the file of d is gone from the upload
\* directory; and when the index is empty after it, a following chat request
\* with a question gets the no-documents answer with empty sources.
C2_DeleteRemovesAll ==
    [][/\ (resp'.op = "delete" /\ resp'.status = 200) =>
             /\ resp'.req.doc_id \in IndexedDocIds(rows)
             /\ resp'.req.doc_id \notin IndexedDocIds(rows')
             /\ \A e \in Documents(rows') : e.id # resp'.req.doc_id
             /\ \A r \in rows : r.doc_id = resp'.req.doc_id =>
                    /\ r.filename \notin DOMAIN files'
                    /\ r.filename = resp'.body.filename
             /\ resp'.body.chunks_deleted =
                    Cardinality({r \in rows : r.doc_id = resp'.req.doc_id})
       /\ (/\ resp.op = "delete" /\ resp.status = 200 /\ rows = {}
           /\ resp'.op = "chat" /\ resp'.req.hasQuestion) =>
             /\ resp'.status = 200
             /\ resp'.body.answer = NoDocumentsAnswer
             /\ resp'.body.sources = <<>>]_vars

\* C2 witness: the only indexed document, of several chunks, was just deleted.
C2_Witness ==
    /\ resp.op = "delete"
    /\ resp.status = 200
    /\ resp.body.chunks_deleted >= 2
    /\ rows = {}
    /\ resp.body.filename \notin DOMAIN files

\* C3 (as stated): chunk_text returns ceil(max(L - overlap, 1) / (size - overlap))
\* chunks for a text of length L.
C3_Original ==
    ct_pc = "done" =>
        Len(ct_chunks) = CeilDiv(Max(ct_text.len - OVERLAP, 1), Stride)

\* C3 (amended): chunk_text returns ceil(L / (size - overlap)) chunks for a text
\* of length L, none for the empty text.
C3_ChunkCount ==
    ct_pc = "done" => Len(ct_chunks) = CeilDiv(ct_text.len, Stride)

\* C3 witness: a text whose tail lies within the overlap of the window before
\* it still gets a window of its own.
C3_Witness ==
    /\ ct_pc = "done"
    /\ ct_text.len = 2 * Stride + OVERLAP
    /\ Len(ct_chunks) = 3

\* C4 (as stated): every chunk except the last has length exactly 1000.
C4_Original ==
    ct_pc = "done" =>
        \A i \in 1..(Len(ct_chunks) - 1) : ChunkLen(ct_chunks[i]) = CHUNK_SIZE

\* C4 (amended): every chunk except the last two has length exactly 1000; the
\* last two are not empty and not longer than 1000.
C4_ChunkLengths ==
    ct_pc = "done" =>
        /\ \A i \in 1..(Len(ct_chunks) - 2) : ChunkLen(ct_chunks[i]) = CHUNK_SIZE
        /\ \A i \in 1..Len(ct_chunks) :
              /\ ChunkLen(ct_chunks[i]) >= 1
              /\ ChunkLen(ct_chunks[i]) <= CHUNK_SIZE

\* C4 witness: the chunk before the last is shorter than 1000.
C4_Witness ==
    /\ ct_pc = "done"
    /\ Len(ct_chunks) >= 3
    /\ ChunkLen(ct_chunks[Len(ct_chunks) - 1]) < CHUNK_SIZE
    /\ ChunkLen(ct_chunks[1]) = CHUNK_SIZE

ChatAnswersNoDocuments ==
    /\ resp.status = 200
    /\ resp.body.answer = NoDocumentsAnswer
    /\ resp.body.sources = <<>>
    /\ ~resp.body.called

DeleteOfUnknown == resp'.op = "delete" /\ resp'.req.doc_id \notin IndexedDocIds(rows)

DeleteNotFound == resp'.status = 404 /\ rows' = rows /\ files' = files

C7_DuplicatesOnlyByRace ==
    \A r1 \in rows : \A r2 \in rows :
        (r1.filename = r2.filename /\ r1.doc_id < r2.doc_id)
            => hist[r2.doc_id] <= r1.doc_id

\* C7 witness: both request threads returned 200 and the index holds chunks of
\* their two doc_ids under one filename.
C7_Witness ==
    /\ wresp[1].status = 200
    /\ wresp[2].status = 200
    /\ wresp[1].doc_id # wresp[2].doc_id
    /\ wresp[1].filename = wresp[2].filename
    /\ \E r1 \in rows : \E r2 \in rows :
          /\ r1.doc_id = wresp[1].doc_id
          /\ r2.doc_id = wresp[2].doc_id
          /\ r1.filename = r2.filename

GenerationFails == ~model \/ resp.req.gen = "raise"

\* C8: a chat with a question and a non-empty retrieved context whose
\* generation fails is answered 200 with an error string as answer and the
\* retrieved filenames, each once, as sources.
C8_GenerationSoftFail ==
    (/\ resp.op = "chat" /\ resp.req.hasQuestion
     /\ resp.req.results # <<>> /\ GenerationFails)
        => /\ resp.status = 200
           /\ resp.body.answer \in {"Error: Gemini API is not configured",
                                    "Error generating response"}
           /\ Range(resp.body.sources) = {r.filename : r \in Range(resp.req.results)}
           /\ Cardinality(Range(resp.body.sources)) = Len(resp.body.sources)

\* C8 witness: generate_content raised on a context retrieved from two files.
C8_Witness ==
    /\ resp.op = "chat"
    /\ resp.req.gen = "raise"
    /\ resp.body.called
    /\ Len(resp.body.sources) = 2
    /\ Len(resp.req.results) > 2

\* C9: an upload of a PDF whose extracted text is empty or whitespace-only
\* returns 400 and adds no chunk; if the request got as far as saving its file
\* the file is not in the upload directory afterwards, otherwise the directory
\* is as it was.
C9_EmptyExtraction ==
    [][(UploadOf(resp') /\ BlankExtraction(resp'.req.content))
          => /\ resp'.status = 400
             /\ rows' = rows
             /\ IF ReachesSave(resp'.req)
                THEN secure_filename(resp'.req.filename) \notin DOMAIN files'
                ELSE files' = files]_vars

\* C9 witness: an upload was refused for its empty text while another document
\* is indexed, and no file of its name is left.
C9_Witness ==
    /\ UploadOf(resp)
    /\ resp.status = 400
    /\ resp.body.error = "No text could be extracted from PDF"
    /\ rows # {}
    /\ secure_filename(resp.req.filename) \notin DOMAIN files

=============================================================================
